---- MODULE Spec2Model ----
(***************************************************************************)
(* The crawl engine of SuperMCP-CLI (src/src/scraper.js, class             *)
(* DocumentationScraper) as a state machine.                               *)
(*                                                                         *)
(* A JavaScript string is modelled as a sequence of tokens (each token a   *)
(* run of characters that the engine never splits), so that startsWith,    *)
(* includes, split('#') and string concatenation are the sequence          *)
(* operations they are on characters.  A step of the machine is one turn   *)
(* of the event loop: the synchronous code that runs from the settling of  *)
(* one awaited promise up to the next await.                               *)
(***************************************************************************)
EXTENDS Integers, Sequences, FiniteSets, TLC

(***************************************************************************)
(* Bounds of the model.                                                    *)
(***************************************************************************)
\* --max-pages / options.maxPages values tried: 0 (absent, falsy) .. MaxPagesOpt
MaxPagesOpt == 2
\* options.concurrency values tried: 0 (absent, falsy) .. MaxConcurrencyOpt
MaxConcurrencyOpt == 2
\* the largest number of scrape calls made on one instance
MaxCalls == 2
\* the largest --max-pages value and the largest number of documentation URLs
\* given to the create command
MaxCliPages == 3
MaxUrls == 3
\* the largest number of content elements between the nav and the footer of a page
MaxElems == 2

(***************************************************************************)
(* Program constants.                                                      *)
(***************************************************************************)
DefaultMaxPages == 200
DefaultConcurrency == 5
\* create.js: `parseInt(maxPages, 10) || 200` and `concurrency: 5`
CreateDefaultMaxPages == 200
CreateConcurrency == 5
\* scrapePage: `el.text().trim().length > 100`
MinContentLength == 100

(***************************************************************************)
(* Strings.                                                                *)
(***************************************************************************)
Range(s) == {s[i] : i \in 1..Len(s)}

Min(a, b) == IF a < b THEN a ELSE b

\* String.prototype.startsWith
startsWith(s, p) == Len(p) <= Len(s) /\ SubSeq(s, 1, Len(p)) = p

\* String.prototype.includes
includes(s, p) ==
  \E i \in 1..(Len(s) - Len(p) + 1) : SubSeq(s, i, i + Len(p) - 1) = p

\* index of the first / last occurrence of token t in s, 0 when absent
indexOf(s, t) ==
  IF t \in Range(s) THEN CHOOSE i \in 1..Len(s) : s[i] = t /\ \A j \in 1..(i - 1) : s[j] # t
  ELSE 0

lastIndexOf(s, t) ==
  IF t \in Range(s) THEN CHOOSE i \in 1..Len(s) : s[i] = t /\ \A j \in (i + 1)..Len(s) : s[j] # t
  ELSE 0

\* s.split('#')[0]
beforeHash(s) == IF indexOf(s, "#") = 0 THEN s ELSE SubSeq(s, 1, indexOf(s, "#") - 1)

(***************************************************************************)
(* URLs (the WHATWG URL class, as far as the engine uses it).              *)
(***************************************************************************)
\* tokens that can make up the host (and port) of a URL
HostTokens == {"ex.com", ".evil", "other.org"}

\* new URL(s) succeeds: a scheme followed by a host
validUrl(s) == Len(s) >= 2 /\ s[1] = "https://" /\ s[2] \in HostTokens

\* length of the scheme + host + port part of a valid URL
originLen(s) ==
  CHOOSE k \in 2..Len(s) :
    /\ \A j \in 2..k : s[j] \in HostTokens
    /\ (k = Len(s) \/ s[k + 1] \notin HostTokens)

\* new URL(s).origin
origin(s) == SubSeq(s, 1, originLen(s))

\* new URL(s).pathname ("/" when the URL has no path)
pathname(s) ==
  LET rest == beforeHash(SubSeq(s, originLen(s) + 1, Len(s)))
  IN  IF rest = <<>> THEN <<"/">> ELSE rest

\* the null of resolveUrl; null and '' are both falsy in `!url`
Null == <<>>

\* new URL(href, b).href for an href that is neither absolute nor root-relative:
\* a fragment-only href keeps the base's path, anything else replaces the last
\* segment of the base's path (dot segments do not occur in the hrefs modelled)
canParse(href) == href[1] # "foo://["

relativeHref(href, b) ==
  LET p == pathname(b)
  IN  IF href[1] = "#"
      THEN origin(b) \o p \o href
      ELSE origin(b) \o SubSeq(p, 1, lastIndexOf(p, "/")) \o href

(***************************************************************************)
(* The inputs: start URLs, the anchors of the pages of the site and the    *)
(* <loc> lists of its sitemaps.                                            *)
(***************************************************************************)
DocsA == <<"https://", "ex.com", "/", "docs", "/", "a">>
DocsB == <<"https://", "ex.com", "/", "docs", "/", "b">>
DocsC == <<"https://", "ex.com", "/", "docs", "/", "c">>
RootB == <<"https://", "ex.com", "/", "b">>
BlogPost == <<"https://", "ex.com", "/", "blog", "/", "post">>
EvilA == <<"https://", "ex.com", ".evil", "/", "docs", "/", "a">>
OtherA == <<"https://", "other.org", "/", "docs", "/", "a">>
NotAUrl == <<"docs", "/", "a">>

StartUrls == {DocsA, NotAUrl}

\* the href attributes of the anchors of a page that are left once the boilerplate
\* elements are removed, in document order
Body0 == <<>>
Body1 == << <<"/", "docs", "/", "b">>, <<"/", "blog", "/", "post">> >>
Body2 == << <<"b", "#", "x">>, EvilA, <<"/", "docs", "/", "b">> >>
Body3 == << <<"/", "docs", "/", "a", "#", "x">>, <<>>, <<"foo://[">>, OtherA,
            <<"/", "docs", "/", "guide", ".pdf">>, <<"/", "login">>,
            <<"/", "docs", "/", "b">>, <<"/", "docs", "/", "b">> >>
PageBodies == {Body0, Body1, Body2, Body3}

\* the <loc> texts of a sitemap, in document order
Sitemap0 == <<>>
Sitemap1 == <<DocsA, DocsB, DocsA, BlogPost, DocsC>>
Sitemap2 == << <<"/", "docs", "/", "a">> >>
Sitemap3 == <<BlogPost, DocsB>>
Sitemap4 == <<BlogPost>>
SitemapBodies == {Sitemap0, Sitemap1, Sitemap2, Sitemap3, Sitemap4}

(***************************************************************************)
(* State.                                                                  *)
(***************************************************************************)
VARIABLES
  maxPages,     \* this.maxPages
  concurrency,  \* this.concurrency
  visited,      \* this.visited
  queue,        \* this.queue
  pages,        \* this.pages (a Page is its url and, for its content, its anchors)
  pc,           \* where scrape() is: "idle", "probe", "crawl", "done", "rejected"
  startUrl,     \* the argument of scrape
  probe,        \* index into sitemapUrls of the probe in flight
  probed,       \* the sitemap URLs requested so far
  mode,         \* "none", "sitemap" or "recursive"
  baseUrl,      \* the baseUrl local of the crawl in progress
  basePath,     \* the basePath local of the crawl in progress
  inflight,     \* the page URLs whose axios.get has not settled, in dispatch order
  fetched,      \* the page URLs handed to axios.get, in order
  seeded,       \* toScrape of scrapeFromSitemap
  linked,       \* the URLs pushed to the queue by link discovery
  anyOk,        \* some axios.get of this invocation has succeeded
  lastFetch,    \* how the axios.get that settled last ended: "none", "ok", "fail"
  result,       \* <<>> until scrape returns, then <<ScrapeResult>>
  call,         \* which scrape call of the instance the locals above belong to
  calls,        \* the number of scrape calls made on the instance
  pagesId,      \* the identity of the array this.pages refers to
  retired,      \* retired[k]: the array with identity k, once this.pages left it
  returned,     \* the results handed to the callers so far, with the array they hold
  other,        \* the locals of the other scrape call in flight, <<>> when none
  cli,          \* the create command that built the instance: its --max-pages value
                \* as parsed and the length of its urlList; <<>> when there is none
  html,         \* response.data of a page, as scrapePage loads it
  content       \* what scrapePage extracted from it: <<>> before, then <<pieces>>

\* the fields of the instance
fields == <<maxPages, concurrency, visited, queue, pages, pagesId, retired>>

\* the locals of one scrape call (with what is recorded about it)
locals == <<pc, startUrl, probe, probed, mode, baseUrl, basePath, inflight, fetched,
            seeded, linked, anyOk, lastFetch, result, call>>

\* what no step of scrape writes
elsewhere == <<cli, html, content>>

vars == <<maxPages, concurrency, visited, queue, pages, pc, startUrl, probe, probed,
          mode, baseUrl, basePath, inflight, fetched, seeded, linked, anyOk, lastFetch,
          result, call, calls, pagesId, retired, returned, other, cli, html, content>>

(***************************************************************************)
(* The pure methods of DocumentationScraper.                               *)
(***************************************************************************)
\* options.x || d
orDefault(x, d) == IF x = 0 THEN d ELSE x

getBasePath(url) ==
  IF validUrl(url)
  THEN LET path == pathname(url) IN SubSeq(path, 1, lastIndexOf(path, "/") - 1)
  ELSE <<>>

resolveUrl(href, base, path) ==
  IF href[1] \in {"https://", "http://"} THEN beforeHash(href)
  ELSE IF href[1] = "/" THEN base \o beforeHash(href)
  ELSE IF validUrl(base \o path) /\ canParse(href)
       THEN beforeHash(relativeHref(href, base \o path))
       ELSE Null

excludePatterns ==
  << <<"/", "blog", "/">>, <<"/", "changelog", "/">>, <<".pdf">>, <<".zip">>,
     <<".tar.gz">>, <<"/", "downloads", "/">>, <<"/", "login">>, <<"/", "signup">>,
     <<"/", "api-reference", "/">> >>

\* shouldFollow without its denylist loop
shouldFollowNoDenylist(url, base, path) ==
  /\ url # Null
  /\ startsWith(url, base)
  /\ url \notin visited

\* shouldFollow without its visited test
shouldFollowIgnoresVisited(url, base, path) ==
  /\ url # Null
  /\ startsWith(url, base)
  /\ \A i \in 1..Len(excludePatterns) : ~includes(url, excludePatterns[i])

shouldFollow(url, base, path) ==
  /\ url # Null
  /\ startsWith(url, base)
  /\ url \notin visited
  /\ \A i \in 1..Len(excludePatterns) : ~includes(url, excludePatterns[i])

sitemapUrls(base) ==
  << base \o <<"/", "sitemap.xml">>,
     base \o <<"/", "sitemap_index.xml">>,
     base \o <<"/", "sitemap.xml">>,
     origin(base) \o <<"/", "sitemap.xml">>,
     origin(base) \o <<"/", "sitemap_index.xml">> >>

\* the links of a fetched page that scrapePage pushes to the queue
discoverLinks(body) ==
  LET hrefs == SelectSeq(body, LAMBDA h : h # <<>>)
      full == [i \in 1..Len(hrefs) |-> resolveUrl(hrefs[i], baseUrl, basePath)]
  IN  SelectSeq(full, LAMBDA u : shouldFollow(u, baseUrl, basePath))

(***************************************************************************)
(* The crawl loop of scrapeFromSitemap and recursiveCrawl.                 *)
(***************************************************************************)
\* scrapePage without its visited test
mapBatchNoDedup(batch, v, started) ==
  [visited |-> v \cup Range(batch), started |-> started \o batch]

\* batch.map(url => this.scrapePage(url, ...)): the synchronous head of each
\* scrapePage, in order; `started` are the URLs whose axios.get was issued
RECURSIVE mapBatch(_, _, _)
mapBatch(batch, v, started) ==
  IF batch = <<>> THEN [visited |-> v, started |-> started]
  ELSE IF Head(batch) \in v
       THEN mapBatch(Tail(batch), v, started)
       ELSE mapBatch(Tail(batch), v \cup {Head(batch)}, Append(started, Head(batch)))

\* a splice that takes one URL too many
batchSizeOneMore(q) == Min(concurrency + 1, Len(q))

\* the number of URLs queue.splice(0, this.concurrency) removes from q
batchSize(q) == Min(concurrency, Len(q))

\* a loop guard that lets one more batch through at the budget
loopGuardLate(q, p) == Len(q) > 0 /\ Len(p) <= maxPages

\* the loop guard
loopGuard(q, p) == Len(q) > 0 /\ Len(p) < maxPages

\* the while loop from its guard up to the next await that suspends it (a
\* batch whose members were all visited already settles with no fetch, and
\* the loop goes round again); f is the log of fetches so far
RECURSIVE crawlLoop(_, _, _, _)
crawlLoop(q, v, p, f) ==
  IF loopGuard(q, p)
  THEN LET n == batchSize(q)
           m == mapBatch(SubSeq(q, 1, n), v, <<>>)
           rest == SubSeq(q, n + 1, Len(q))
       IN  IF m.started = <<>>
           THEN crawlLoop(rest, m.visited, p, f)
           ELSE [queue |-> rest, visited |-> m.visited, inflight |-> m.started,
                 fetched |-> f \o m.started, returned |-> FALSE]
  ELSE [queue |-> q, visited |-> v, inflight |-> <<>>, fetched |-> f, returned |-> TRUE]

\* a result that counts the URLs visited instead of the pages collected
ScrapeResultCountsVisited(p, base) ==
  [pageCount |-> Cardinality(visited), pages |-> p, baseUrl |-> base]

\* the ScrapeResult (scrapedAt, a timestamp, is left out)
ScrapeResult(p, base) == [pageCount |-> Len(p), pages |-> p, baseUrl |-> base]

\* the state after the loop ran from its guard: suspended on a batch, or returned
Resume(q, v, p, f, resultBase) ==
  LET l == crawlLoop(q, v, p, f)
  IN  /\ queue' = l.queue
      /\ visited' = l.visited
      /\ inflight' = l.inflight
      /\ fetched' = l.fetched
      /\ pc' = IF l.returned THEN "done" ELSE "crawl"
      /\ result' = IF l.returned THEN <<ScrapeResult(p, resultBase)>> ELSE result
      /\ returned' = IF l.returned
                     THEN Append(returned, [call |-> call, pagesId |-> pagesId,
                                            atReturn |-> ScrapeResult(p, resultBase)])
                     ELSE returned

\* baseUrl of the result: `baseUrl || sitemapUrls[0]` or startUrl
resultBaseUrl == IF mode = "sitemap" THEN baseUrl ELSE startUrl

(***************************************************************************)
(* Init: a constructed engine, no scrape called yet.                       *)
(***************************************************************************)
\* the constructor's three collections, and no scrape called yet
Constructed ==
  /\ visited = {}
  /\ queue = <<>>
  /\ pages = <<>>
  /\ pc = "idle"
  /\ startUrl = <<>>
  /\ probe = 0
  /\ probed = <<>>
  /\ mode = "none"
  /\ baseUrl = <<>>
  /\ basePath = <<>>
  /\ inflight = <<>>
  /\ fetched = <<>>
  /\ seeded = <<>>
  /\ linked = {}
  /\ anyOk = FALSE
  /\ lastFetch = "none"
  /\ result = <<>>
  /\ call = 0
  /\ calls = 0
  /\ pagesId = 1
  /\ retired = <<>>
  /\ returned = <<>>
  /\ other = <<>>

Init ==
  /\ \E mp \in 0..MaxPagesOpt : maxPages = orDefault(mp, DefaultMaxPages)
  /\ \E c \in 0..MaxConcurrencyOpt : concurrency = orDefault(c, DefaultConcurrency)
  /\ Constructed
  /\ cli = <<>>
  /\ html = <<>>
  /\ content = <<>>

(***************************************************************************)
(* scrape(startUrl) up to its first await: the reset, and tryFetchSitemap  *)
(* up to the first probe (new URL(baseUrl) throws on an invalid start URL).*)
(***************************************************************************)
\* a scrape that probes the sitemap of a start URL it did not parse
BeginProbesUnparsed(u) ==
  /\ startUrl' = u
  /\ calls' = calls + 1
  /\ call' = calls + 1
  /\ visited' = {}
  /\ queue' = <<>>
  /\ pages' = <<>>
  /\ pagesId' = pagesId + 1
  /\ retired' = Append(retired, pages)
  /\ pc' = "probe"
  /\ probe' = 1
  /\ probed' = <<u \o <<"/", "sitemap.xml">> >>
  /\ mode' = "none"
  /\ baseUrl' = <<>>
  /\ basePath' = <<>>
  /\ inflight' = <<>>
  /\ fetched' = <<>>
  /\ seeded' = <<>>
  /\ linked' = {}
  /\ anyOk' = FALSE
  /\ lastFetch' = "none"
  /\ result' = <<>>
  /\ UNCHANGED <<maxPages, concurrency, returned>>
  /\ UNCHANGED elsewhere

\* a scrape that begins without this.visited.clear()
BeginKeepsVisited(u) ==
  /\ startUrl' = u
  /\ calls' = calls + 1
  /\ call' = calls + 1
  /\ visited' = visited
  /\ queue' = <<>>
  /\ pages' = <<>>
  /\ pagesId' = pagesId + 1
  /\ retired' = Append(retired, pages)
  /\ IF validUrl(u)
     THEN /\ pc' = "probe"
          /\ probe' = 1
          /\ probed' = <<sitemapUrls(u)[1]>>
     ELSE /\ pc' = "rejected"
          /\ probe' = 0
          /\ probed' = <<>>
  /\ mode' = "none"
  /\ baseUrl' = <<>>
  /\ basePath' = <<>>
  /\ inflight' = <<>>
  /\ fetched' = <<>>
  /\ seeded' = <<>>
  /\ linked' = {}
  /\ anyOk' = FALSE
  /\ lastFetch' = "none"
  /\ result' = <<>>
  /\ UNCHANGED <<maxPages, concurrency, returned>>
  /\ UNCHANGED elsewhere

Begin(u) ==
  /\ startUrl' = u
  /\ calls' = calls + 1
  /\ call' = calls + 1
  /\ visited' = {}
  /\ queue' = <<>>
  /\ pages' = <<>>
  /\ pagesId' = pagesId + 1
  /\ retired' = Append(retired, pages)
  /\ IF validUrl(u)
     THEN /\ pc' = "probe"
          /\ probe' = 1
          /\ probed' = <<sitemapUrls(u)[1]>>
     ELSE /\ pc' = "rejected"
          /\ probe' = 0
          /\ probed' = <<>>
  /\ mode' = "none"
  /\ baseUrl' = <<>>
  /\ basePath' = <<>>
  /\ inflight' = <<>>
  /\ fetched' = <<>>
  /\ seeded' = <<>>
  /\ linked' = {}
  /\ anyOk' = FALSE
  /\ lastFetch' = "none"
  /\ result' = <<>>
  /\ UNCHANGED <<maxPages, concurrency, returned>>
  /\ UNCHANGED elsewhere

\* the first scrape call on the instance
Scrape(u) ==
  /\ pc = "idle"
  /\ Begin(u)
  /\ UNCHANGED other

\* a later scrape call on the same instance, the one before it having settled
\* (create.js awaits each scrape of its for loop before the next)
ScrapeAgain(u) ==
  /\ pc \in {"done", "rejected"}
  /\ calls < MaxCalls
  /\ Begin(u)
  /\ UNCHANGED other

\* a probe that yields no URL (fetch error, or a body with no <loc>): the next
\* candidate is probed; after the last one tryFetchSitemap returns [] and
\* recursiveCrawl runs up to its first await
NextCandidate ==
  IF probe < Len(sitemapUrls(startUrl))
  THEN /\ probe' = probe + 1
       /\ probed' = Append(probed, sitemapUrls(startUrl)[probe + 1])
       /\ UNCHANGED <<visited, queue, pc, mode, baseUrl, basePath, inflight, fetched,
                      result, returned>>
  ELSE /\ mode' = "recursive"
       /\ baseUrl' = origin(startUrl)
       /\ basePath' = getBasePath(startUrl)
       /\ Resume(Append(queue, startUrl), visited, pages, fetched, startUrl)
       /\ UNCHANGED <<probe, probed>>

ProbeFail ==
  /\ pc = "probe"
  /\ lastFetch' = "fail"
  /\ NextCandidate
  /\ UNCHANGED <<maxPages, concurrency, pages, startUrl, seeded, linked, anyOk>>
  /\ UNCHANGED <<call, calls, pagesId, retired, other>>
  /\ UNCHANGED elsewhere

\* scrapeFromSitemap up to its first await
SeedFromSitemap(urls) ==
  IF validUrl(urls[1])
  THEN LET base == origin(urls[1])
           path == getBasePath(urls[1])
           docUrls == SelectSeq(urls, LAMBDA x : shouldFollow(x, base, path))
           toScrape == SubSeq(docUrls, 1, Min(maxPages, Len(docUrls)))
       IN  /\ mode' = "sitemap"
           /\ baseUrl' = base
           /\ basePath' = path
           /\ seeded' = toScrape
           /\ Resume(toScrape, visited, pages, fetched, base)
  ELSE /\ pc' = "rejected"
       /\ UNCHANGED <<visited, queue, mode, baseUrl, basePath, inflight, fetched,
                      seeded, result, returned>>

ProbeOk(urls) ==
  /\ pc = "probe"
  /\ anyOk' = TRUE
  /\ lastFetch' = "ok"
  /\ IF Len(urls) > 0
     THEN SeedFromSitemap(urls) /\ UNCHANGED <<probe, probed>>
     ELSE NextCandidate /\ UNCHANGED seeded
  /\ UNCHANGED <<maxPages, concurrency, pages, startUrl, linked>>
  /\ UNCHANGED <<call, calls, pagesId, retired, other>>
  /\ UNCHANGED elsewhere

(***************************************************************************)
(* scrapePage after its await: the response of url arrives, or the fetch   *)
(* fails; when it was the last of its batch, Promise.all settles and the   *)
(* loop runs on.                                                           *)
(***************************************************************************)
\* a settle that marks the links it queued as visited
AfterSettleMarksQueued(i, q, p) ==
  IF Len(inflight) = 1
  THEN Resume(q, visited, p, fetched, resultBaseUrl)
  ELSE /\ queue' = q
       /\ visited' = visited \cup Range(q)
       /\ inflight' = SubSeq(inflight, 1, i - 1) \o SubSeq(inflight, i + 1, Len(inflight))
       /\ UNCHANGED <<fetched, pc, result, returned>>

\* i is the index in inflight of the fetch that settles
AfterSettle(i, q, p) ==
  IF Len(inflight) = 1
  THEN Resume(q, visited, p, fetched, resultBaseUrl)
  ELSE /\ queue' = q
       /\ inflight' = SubSeq(inflight, 1, i - 1) \o SubSeq(inflight, i + 1, Len(inflight))
       /\ UNCHANGED <<visited, fetched, pc, result, returned>>

\* a scrapePage that tests the budget before it pushes its page
FetchOkTestsBeforePush(i, body) ==
  /\ pc = "crawl"
  /\ i \in 1..Len(inflight)
  /\ anyOk' = TRUE
  /\ lastFetch' = "ok"
  /\ LET p == Append(pages, [url |-> inflight[i], content |-> body])
         found == IF Len(pages) < maxPages THEN discoverLinks(body) ELSE <<>>
     IN  /\ pages' = p
         /\ linked' = linked \cup Range(found)
         /\ AfterSettle(i, queue \o found, p)
  /\ UNCHANGED <<maxPages, concurrency, startUrl, probe, probed, mode, baseUrl,
                 basePath, seeded>>
  /\ UNCHANGED <<call, calls, pagesId, retired, other>>
  /\ UNCHANGED elsewhere

FetchOk(i, body) ==
  /\ pc = "crawl"
  /\ i \in 1..Len(inflight)
  /\ anyOk' = TRUE
  /\ lastFetch' = "ok"
  /\ LET p == Append(pages, [url |-> inflight[i], content |-> body])
         found == IF Len(p) < maxPages THEN discoverLinks(body) ELSE <<>>
     IN  /\ pages' = p
         /\ linked' = linked \cup Range(found)
         /\ AfterSettle(i, queue \o found, p)
  /\ UNCHANGED <<maxPages, concurrency, startUrl, probe, probed, mode, baseUrl,
                 basePath, seeded>>
  /\ UNCHANGED <<call, calls, pagesId, retired, other>>
  /\ UNCHANGED elsewhere

\* scrapePage without its try/catch: the rejection reaches Promise.all and scrape
FetchFailRejects(i) ==
  /\ pc = "crawl"
  /\ i \in 1..Len(inflight)
  /\ lastFetch' = "fail"
  /\ pc' = "rejected"
  /\ inflight' = SubSeq(inflight, 1, i - 1) \o SubSeq(inflight, i + 1, Len(inflight))
  /\ UNCHANGED <<maxPages, concurrency, visited, queue, pages, startUrl, probe, probed,
                 mode, baseUrl, basePath, fetched, seeded, linked, anyOk, result>>
  /\ UNCHANGED <<call, calls, pagesId, retired, returned, other>>
  /\ UNCHANGED elsewhere

FetchFail(i) ==
  /\ pc = "crawl"
  /\ i \in 1..Len(inflight)
  /\ lastFetch' = "fail"
  /\ AfterSettle(i, queue, pages)
  /\ UNCHANGED <<maxPages, concurrency, pages, startUrl, probe, probed, mode, baseUrl,
                 basePath, seeded, linked, anyOk>>
  /\ UNCHANGED <<call, calls, pagesId, retired, other>>
  /\ UNCHANGED elsewhere

Next ==
  \/ \E u \in StartUrls : Scrape(u)
  \/ ProbeFail
  \/ \E urls \in SitemapBodies : ProbeOk(urls)
  \/ \E i \in 1..Len(inflight), body \in PageBodies : FetchOk(i, body)
  \/ \E i \in 1..Len(inflight) : FetchFail(i)

Spec == Init /\ [][Next]_vars

(***************************************************************************)
(* Fairness: every axios.get eventually settles (axios enforces the        *)
(* timeout of each request), so a pending probe or page fetch is           *)
(* eventually answered.                                                    *)
(***************************************************************************)
Settle ==
  \/ ProbeFail
  \/ \E urls \in SitemapBodies : ProbeOk(urls)
  \/ \E i \in 1..Len(inflight), body \in PageBodies : FetchOk(i, body)
  \/ \E i \in 1..Len(inflight) : FetchFail(i)

LiveSpec == Init /\ [][Next]_vars /\ WF_vars(Settle)

\* a scrape that was called settles: it returns or rejects
Terminates == (pc # "idle") ~> (pc \in {"done", "rejected"})

(***************************************************************************)
(* Sequential reuse: scrape is called again on the instance once the call  *)
(* before it has settled, as the for loop of the create command does.      *)
(***************************************************************************)
ReuseSitemaps == {Sitemap0, Sitemap3}
ReuseBodies == {Body0, Body1}

ReuseNext ==
  \/ \E u \in StartUrls : Scrape(u)
  \/ \E u \in StartUrls : ScrapeAgain(u)
  \/ ProbeFail
  \/ \E urls \in ReuseSitemaps : ProbeOk(urls)
  \/ \E i \in 1..Len(inflight), body \in ReuseBodies : FetchOk(i, body)
  \/ \E i \in 1..Len(inflight) : FetchFail(i)

ReuseSpec == Init /\ [][ReuseNext]_vars

(***************************************************************************)
(* Overlapping calls: scrape is called while a call before it is suspended *)
(* on an await. Both calls work on the fields of the instance; each has    *)
(* its own locals, and the event loop runs the continuation of the one or  *)
(* of the other. The variables of the locals are those of the call whose   *)
(* continuation runs next, `other` holds those of the call that waits.     *)
(***************************************************************************)
suspended ==
  [pc |-> pc, startUrl |-> startUrl, probe |-> probe, probed |-> probed, mode |-> mode,
   baseUrl |-> baseUrl, basePath |-> basePath, inflight |-> inflight,
   fetched |-> fetched, seeded |-> seeded, linked |-> linked, anyOk |-> anyOk,
   lastFetch |-> lastFetch, result |-> result, call |-> call]

\* an instance that refuses a scrape while another is in flight
ScrapeWhileBusyRefused(u) ==
  /\ pc \in {"probe", "crawl"}
  /\ other = <<>>
  /\ pc' = "rejected"
  /\ other' = suspended
  /\ startUrl' = u
  /\ calls' = calls + 1
  /\ call' = calls + 1
  /\ probe' = 0
  /\ probed' = <<>>
  /\ mode' = "none"
  /\ baseUrl' = <<>>
  /\ basePath' = <<>>
  /\ inflight' = <<>>
  /\ fetched' = <<>>
  /\ seeded' = <<>>
  /\ linked' = {}
  /\ anyOk' = FALSE
  /\ lastFetch' = "none"
  /\ result' = <<>>
  /\ UNCHANGED <<fields, returned>>
  /\ UNCHANGED elsewhere

\* scrape(u) called while the call before it waits for a response: nothing in
\* scrape looks at whether a crawl is in flight
ScrapeWhileBusy(u) ==
  /\ pc \in {"probe", "crawl"}
  /\ other = <<>>
  /\ other' = suspended
  /\ Begin(u)

\* the event loop runs a continuation of the other call next
Switch ==
  /\ other # <<>>
  /\ other.pc \in {"probe", "crawl"}
  /\ other' = suspended
  /\ pc' = other.pc
  /\ startUrl' = other.startUrl
  /\ probe' = other.probe
  /\ probed' = other.probed
  /\ mode' = other.mode
  /\ baseUrl' = other.baseUrl
  /\ basePath' = other.basePath
  /\ inflight' = other.inflight
  /\ fetched' = other.fetched
  /\ seeded' = other.seeded
  /\ linked' = other.linked
  /\ anyOk' = other.anyOk
  /\ lastFetch' = other.lastFetch
  /\ result' = other.result
  /\ call' = other.call
  /\ UNCHANGED <<fields, calls, returned>>
  /\ UNCHANGED elsewhere

OverlapUrls == {DocsA, DocsC}
OverlapSitemaps == {Sitemap0}
OverlapBodies == {Body0, Body1}

OverlapNext ==
  \/ \E u \in OverlapUrls : Scrape(u)
  \/ \E u \in OverlapUrls : ScrapeWhileBusy(u)
  \/ Switch
  \/ ProbeFail
  \/ \E urls \in OverlapSitemaps : ProbeOk(urls)
  \/ \E i \in 1..Len(inflight), body \in OverlapBodies : FetchOk(i, body)
  \/ \E i \in 1..Len(inflight) : FetchFail(i)

OverlapSpec == Init /\ [][OverlapNext]_vars

(***************************************************************************)
(* The create command: it builds one instance for its urlList and scrapes  *)
(* the URLs one after the other; a scrape that rejects ends the loop.      *)
(***************************************************************************)
\* Math.floor(a / b) for a >= 0, b > 0
floorDiv(a, b) == a \div b

Max(a, b) == IF a > b THEN a ELSE b

\* maxPagesNum: parseInt(maxPages, 10) || 200 (0 stands for a value that parses
\* to 0 or to NaN)
maxPagesNum(m) == orDefault(m, CreateDefaultMaxPages)

\* the maxPages option the command gives the constructor
createMaxPages(m, n) == floorDiv(maxPagesNum(m), Max(n, 1))

CreateInit ==
  /\ \E m \in 0..MaxCliPages, n \in 1..MaxUrls :
       /\ cli = [maxPages |-> m, urls |-> n]
       /\ maxPages = orDefault(createMaxPages(m, n), DefaultMaxPages)
  /\ concurrency = orDefault(CreateConcurrency, DefaultConcurrency)
  /\ Constructed
  /\ html = <<>>
  /\ content = <<>>

\* `for (const u of urlList) await scraper.scrape(u)`
CreateScrape(u) ==
  /\ pc \in {"idle", "done"}
  /\ calls < cli.urls
  /\ Begin(u)
  /\ UNCHANGED other

CreateSitemaps == {Sitemap0, Sitemap3}
CreateBodies == {Body0, Body1}

CreateNext ==
  \/ \E u \in StartUrls : CreateScrape(u)
  \/ ProbeFail
  \/ \E urls \in CreateSitemaps : ProbeOk(urls)
  \/ \E i \in 1..Len(inflight), body \in CreateBodies : FetchOk(i, body)
  \/ \E i \in 1..Len(inflight) : FetchFail(i)

CreateSpec == CreateInit /\ [][CreateNext]_vars

(***************************************************************************)
(* Content extraction of scrapePage. A document is the sequence of the     *)
(* elements of its body; an element has a kind (what selects it), ws       *)
(* whitespace characters, then len characters of text, then a nested nav   *)
(* of nav characters of text. The text of a region is a sequence of        *)
(* pieces, each with the element it comes from.                            *)
(***************************************************************************)
\* $('nav, footer, header, script, style, .ad, ...')
unwanted ==
  {"nav", "footer", "header", "script", "style", ".ad", ".advertisement", ".sidebar",
   ".menu", "aside"}

contentSelectors ==
  <<"main", "article", "[role=main]", ".content", ".documentation", ".docs-content",
    "#content", "body">>

NavElem == [kind |-> "nav", ws |-> 0, len |-> 101, nav |-> 0]
FooterElem == [kind |-> "footer", ws |-> 0, len |-> 101, nav |-> 0]

ContentElems == [kind : {"main", "article", "div"}, ws : {0, 1}, len : {0, 100, 101}, nav : {0, 1}]

RECURSIVE seqsUpTo(_, _)
seqsUpTo(S, n) ==
  IF n = 0 THEN {<<>>}
  ELSE LET shorter == seqsUpTo(S, n - 1)
       IN  shorter \cup {Append(q, x) : q \in shorter, x \in S}

\* the pages: an optional nav, up to MaxElems content elements, an optional footer
Documents ==
  {top \o mid \o bottom : top \in {<<>>, <<NavElem>>},
                          mid \in seqsUpTo(ContentElems, MaxElems),
                          bottom \in {<<>>, <<FooterElem>>}}

\* cheerio.load: every element gets its identity, its place in the document
load(doc) == [i \in 1..Len(doc) |-> [id |-> i, kind |-> doc[i].kind, ws |-> doc[i].ws,
                                     len |-> doc[i].len, nav |-> doc[i].nav]]

\* a remove() that takes the top-level matches only
removeTopLevelOnly(dom) == SelectSeq(dom, LAMBDA el : el.kind \notin unwanted)

\* $(unwanted).remove(): the matches go, wherever they are in the tree
remove(dom) ==
  LET kept == SelectSeq(dom, LAMBDA el : el.kind \notin unwanted)
  IN  [i \in 1..Len(kept) |-> [kept[i] EXCEPT !.nav = 0]]

\* el.text()
text(el) ==
  (IF el.ws > 0 THEN <<[id |-> el.id, kind |-> el.kind, space |-> TRUE, n |-> el.ws]>>
   ELSE <<>>)
  \o (IF el.len > 0
      THEN <<[id |-> el.id, kind |-> el.kind, space |-> FALSE, n |-> el.len]>>
      ELSE <<>>)
  \o (IF el.nav > 0 THEN <<[id |-> el.id, kind |-> "nav", space |-> FALSE, n |-> el.nav]>>
      ELSE <<>>)

\* the text of the body: the texts of its elements, in document order
RECURSIVE bodyText(_)
bodyText(dom) == IF dom = <<>> THEN <<>> ELSE text(Head(dom)) \o bodyText(Tail(dom))

RECURSIVE trimStart(_)
trimStart(t) == IF t # <<>> /\ Head(t).space THEN trimStart(Tail(t)) ELSE t

RECURSIVE trimEnd(_)
trimEnd(t) ==
  IF t # <<>> /\ t[Len(t)].space THEN trimEnd(SubSeq(t, 1, Len(t) - 1)) ELSE t

\* String.prototype.trim
trim(t) == trimEnd(trimStart(t))

\* .length of a text
RECURSIVE length(_)
length(t) == IF t = <<>> THEN 0 ELSE Head(t).n + length(Tail(t))

\* $(selector): the texts of the matches, in document order
select(dom, selector) ==
  IF selector = "body" THEN <<bodyText(dom)>>
  ELSE LET matches == SelectSeq(dom, LAMBDA el : el.kind = selector)
       IN  [i \in 1..Len(matches) |-> text(matches[i])]

\* .first()
first(matches) == IF matches = <<>> THEN <<>> ELSE <<matches[1]>>

\* the for loop over contentSelectors from index k, then `content ? content.html()
\* : $.html()`
RECURSIVE pickContent(_, _)
pickContent(dom, k) ==
  IF k > Len(contentSelectors) THEN [by |-> "document", pieces |-> bodyText(dom)]
  ELSE LET el == first(select(dom, contentSelectors[k]))
       IN  IF Len(el) > 0 /\ length(trim(el[1])) > MinContentLength
           THEN [by |-> contentSelectors[k], pieces |-> el[1]]
           ELSE pickContent(dom, k + 1)

extractContent(doc) == pickContent(remove(load(doc)), 1)

ExtractInit ==
  /\ maxPages = DefaultMaxPages
  /\ concurrency = DefaultConcurrency
  /\ Constructed
  /\ cli = <<>>
  /\ html \in Documents
  /\ content = <<>>

\* scrapePage from cheerio.load to the html it hands to turndown
Extract ==
  /\ content = <<>>
  /\ content' = <<extractContent(html)>>
  /\ UNCHANGED <<fields, locals, calls, returned, other, cli, html>>

ExtractNext == Extract

ExtractSpec == ExtractInit /\ [][ExtractNext]_vars

(***************************************************************************)
(* Helpers of the properties.                                              *)
(***************************************************************************)
pageUrls(p) == {p[i].url : i \in 1..Len(p)}

count(q, u) == Cardinality({i \in 1..Len(q) : q[i] = u})

denylisted(u) == \E i \in 1..Len(excludePatterns) : includes(u, excludePatterns[i])

\* the page URLs whose fetch settled without a page: the failed fetches
failedUrls == (Range(fetched) \ Range(inflight)) \ pageUrls(pages)

(***************************************************************************)
(* Properties.                                                             *)
(***************************************************************************)
\* C1: the result of a scrape never holds more than maxPages pages (the page
\* budget is a hard cap).
C1_PageBudgetIsHardCap ==
  result # <<>> => Len(result[1].pages) <= maxPages

\* C2: at every moment of a scrape, and in its result, the number of pages
\* collected is below maxPages + concurrency.
C2_OvershootBelowConcurrency ==
  /\ Len(pages) < maxPages + concurrency
  /\ result # <<>> => Len(result[1].pages) < maxPages + concurrency

\* a crawl that returned with the largest overshoot, concurrency - 1
C2_Witness ==
  /\ result # <<>>
  /\ concurrency > 1
  /\ Len(result[1].pages) = maxPages + concurrency - 1

\* C3: no two pages collected by one scrape have the same url.
C3_NoDuplicatePageUrls ==
  /\ \A i, j \in 1..Len(pages) : pages[i].url = pages[j].url => i = j
  /\ result # <<>> =>
       \A i, j \in 1..Len(result[1].pages) :
         result[1].pages[i].url = result[1].pages[j].url => i = j

\* the first page linked twice to /docs/b, which was pushed to the queue twice
\* and is in the result
C3_Witness ==
  /\ result # <<>>
  /\ mode = "recursive"
  /\ maxPages > 1
  /\ Len(pages) > 0
  /\ pages[1].content = Body3
  /\ DocsB \in pageUrls(result[1].pages)

\* C4: in sitemap mode no link found in a fetched page is pushed to the queue,
\* and every URL fetched is one of the filtered, truncated sitemap list.
C4_SitemapModeNeverDiscovers ==
  mode = "sitemap" => linked = {} /\ Range(fetched) \subseteq Range(seeded)

\* C5: no URL holding a denylist substring is placed in the queue, neither from
\* a link nor from a sitemap entry; /blog/post in particular is never enqueued.
C5_DenylistedNeverEnqueued ==
  /\ \A u \in linked \cup Range(seeded) \cup Range(queue) : ~denylisted(u)
  /\ BlogPost \notin linked \cup Range(seeded) \cup Range(queue)

\* the start page https://ex.com/docs/a linked to /docs/b and /blog/post, and
\* https://ex.com/docs/b was enqueued
C5_Witness ==
  /\ mode = "recursive"
  /\ startUrl = DocsA
  /\ Len(pages) > 0
  /\ pages[1] = [url |-> DocsA, content |-> Body1]
  /\ DocsB \in linked

\* C6: in recursive mode every URL enqueued from a link has the origin of the
\* start URL.
C6_LinksStaySameOrigin ==
  mode = "recursive" => \A u \in linked : validUrl(u) /\ origin(u) = origin(startUrl)

\* the start page linked to https://ex.com.evil/docs/a, which was enqueued
C6_Witness ==
  /\ mode = "recursive"
  /\ EvilA \in linked

\* C7: a failed fetch of a sitemap candidate or of a page never makes scrape
\* reject and never stops the crawl: the other members of the batch stay in
\* flight, the queue is kept and the loop goes on after the batch; when every
\* fetch fails, scrape returns a result with pageCount 0 and no page.
C7_FailedFetchIsSkipped ==
  /\ [][lastFetch' = "fail" =>
          /\ pc' # "rejected"
          /\ pages' = pages
          /\ pc = "probe" =>
               IF probe < Len(sitemapUrls(startUrl))
               THEN pc' = "probe" /\ probe' = probe + 1
               ELSE mode' = "recursive" /\ fetched' = <<startUrl>>
          /\ (pc = "crawl" /\ Len(inflight) > 1) =>
               /\ pc' = "crawl"
               /\ queue' = queue
               /\ Len(inflight') = Len(inflight) - 1
               /\ Range(inflight') \subseteq Range(inflight)
          /\ (pc = "crawl" /\ Len(inflight) = 1) =>
               IF pc' = "done"
               THEN queue' = <<>> \/ Len(pages) >= maxPages
               ELSE inflight' # <<>> /\ Range(inflight') \subseteq Range(queue)
      ]_vars
  /\ [](pc \in {"done", "rejected"} /\ validUrl(startUrl) /\ ~anyOk =>
          /\ pc = "done"
          /\ result = <<[pageCount |-> 0, pages |-> <<>>, baseUrl |-> startUrl]>>)

\* a crawl that returned a page whose fetch was issued after a fetch that failed
C7_Witness ==
  /\ pc = "done"
  /\ \E i, j \in 1..Len(fetched) :
       /\ i < j
       /\ fetched[i] \in failedUrls
       /\ fetched[j] \in pageUrls(result[1].pages)

\* C8: a scrape of a valid start URL returns a result: it does not end by
\* rejecting.
C8_ValidStartReturnsResult ==
  pc = "rejected" => ~validUrl(startUrl)

\* C9: batches run one after another and at most `concurrency` page fetches are
\* in flight: a fetch is issued only when no member of the batch before is
\* left in flight.
C9_BatchesAreSequential ==
  /\ [](Len(inflight) <= concurrency)
  /\ [][fetched' # fetched =>
          /\ Len(inflight) <= 1
          /\ fetched' = fetched \o inflight'
      ]_vars

\* a second batch in flight at full concurrency
C9_Witness ==
  /\ concurrency > 1
  /\ Len(inflight) = concurrency
  /\ Len(fetched) > Len(inflight)

\* C10: each page URL is fetched at most once in a scrape; a URL whose fetch
\* failed stays in visited and link discovery never pushes a visited URL to the
\* queue again.
C10_AtMostOneFetchPerUrl ==
  /\ [](/\ \A i, j \in 1..Len(fetched) : fetched[i] = fetched[j] => i = j
        /\ failedUrls \subseteq visited
        /\ Range(fetched) \subseteq visited)
  /\ [][pc = "crawl" =>
          /\ visited \subseteq visited'
          /\ \A u \in visited : count(queue', u) <= count(queue, u)
      ]_vars

\* the fetch of a URL failed, and a page collected with room left in the budget
\* links to that URL
C10_Witness ==
  /\ pc = "done"
  /\ \E u \in failedUrls : \E k \in 1..Len(pages) :
       /\ k < maxPages
       /\ pages[k].url # u
       /\ \E n \in 1..Len(pages[k].content) :
            /\ pages[k].content[n] # <<>>
            /\ resolveUrl(pages[k].content[n], baseUrl, basePath) = u

\* the array a result holds, as it is now
arrayOf(id) == IF id = pagesId THEN pages ELSE retired[id]

isPrefix(s, t) == Len(s) <= Len(t) /\ SubSeq(t, 1, Len(s)) = s

\* C11: a start URL that does not parse makes scrape reject before anything
\* starts: no sitemap probe, no page fetch, no page, no result.
C11_InvalidStartRejects ==
  (pc # "idle" /\ ~validUrl(startUrl)) =>
    /\ pc = "rejected"
    /\ probed = <<>>
    /\ fetched = <<>>
    /\ inflight = <<>>
    /\ pages = <<>>
    /\ mode = "none"
    /\ result = <<>>

\* scrape was called with docs/a
C11_Witness ==
  /\ pc = "rejected"
  /\ startUrl = NotAUrl

\* the candidate list of the sitemap resolver as the specification gives it
specCandidates(base) ==
  << base \o <<"/", "sitemap.xml">>,
     base \o <<"/", "sitemap_index.xml">>,
     origin(base) \o <<"/", "sitemap.xml">>,
     origin(base) \o <<"/", "sitemap_index.xml">> >>

\* C13: the resolver probes {base}/sitemap.xml, {base}/sitemap_index.xml,
\* {origin}/sitemap.xml, {origin}/sitemap_index.xml in that order, each at most
\* once; it stops at the first non-empty list, and exhausting the candidates
\* gives the empty list (recursive mode) without rejecting.
C13_CandidatesProbedOnceInOrder ==
  validUrl(startUrl) =>
    /\ \A i, j \in 1..Len(probed) : probed[i] = probed[j] => i = j
    /\ isPrefix(probed, specCandidates(startUrl))
    /\ mode = "sitemap" => Len(probed) = probe
    /\ mode = "recursive" => probed = specCandidates(startUrl)

\* C14: a returned result has pageCount equal to the length of its pages, and
\* pages only grows at its end while the scrape runs.
C14_PageCountAndAppendOnly ==
  /\ [](\A k \in 1..Len(returned) :
          /\ returned[k].atReturn.pageCount = Len(arrayOf(returned[k].pagesId))
          /\ returned[k].atReturn.pages = arrayOf(returned[k].pagesId))
  /\ [](result # <<>> => result[1].pageCount = Len(result[1].pages))
  /\ [][(pc = "probe" \/ pc = "crawl") => isPrefix(pages, pages')]_vars

\* a result of two pages or more of a crawl in which a fetch failed
C14_Witness ==
  /\ result # <<>>
  /\ returned # <<>>
  /\ result[1].pageCount >= 2
  /\ failedUrls # {}

\* C16: recursive mode runs exactly when the resolver found no list; in sitemap
\* mode the start URL is fetched only if it is in the filtered sitemap list, and
\* an empty filtered list gives pageCount 0 with no fetch at all.
C16_ModeFromProbeAlone ==
  /\ mode = "recursive" => seeded = <<>> /\ Len(probed) = Len(sitemapUrls(startUrl))
  /\ mode = "sitemap" => (startUrl \in Range(fetched) => startUrl \in Range(seeded))
  /\ (mode = "sitemap" /\ seeded = <<>>) =>
       pc = "done" /\ fetched = <<>> /\ result[1].pageCount = 0

\* C17: while a fetch of the current batch is left in flight, visited and queue
\* do not change.
C17_FrontierQuietDuringBatch ==
  [][(pc = "crawl" /\ Len(inflight) > 1) => visited' = visited /\ queue' = queue]_vars

\* C17 as amended: while a fetch of the current batch is left in flight, visited
\* does not change and nothing is removed from the queue (link discovery of a
\* member that settled may append to it); visited changes only when a batch is
\* dispatched.
C17_VisitedQuietQueueAppended ==
  /\ [][(pc = "crawl" /\ Len(inflight) > 1) =>
          visited' = visited /\ isPrefix(queue, queue')]_vars
  /\ [][(pc = "crawl" /\ visited' # visited) =>
          Len(inflight) = 1 /\ fetched' # fetched]_vars

\* a page was collected and its links appended to the queue while another
\* member of its batch is in flight
C17_Witness ==
  /\ pc = "crawl"
  /\ lastFetch = "ok"
  /\ inflight # <<>>
  /\ queue # <<>>
  /\ Len(pages) > 0
  /\ LET last == pages[Len(pages)]
     IN  /\ \E i, j \in 1..Len(fetched) :
                i < j /\ fetched[i] = inflight[1] /\ fetched[j] = last.url
         /\ \E n \in 1..Len(last.content) :
              /\ last.content[n] # <<>>
              /\ queue[Len(queue)] = resolveUrl(last.content[n], baseUrl, basePath)

\* C19: an href that is neither absolute nor root-relative resolves to
\* origin + basePath + '/' + href without its fragment (b#x on the seed
\* https://ex.com/docs/a gives https://ex.com/docs/b); a root-relative href gives
\* origin + href without its fragment; an href that cannot be resolved gives
\* null and is never enqueued.
C19_RelativeJoinsBasePath ==
  /\ Null \notin linked
  /\ \A k \in 1..Len(pages) : \A n \in 1..Len(pages[k].content) :
       LET h == pages[k].content[n]
           r == resolveUrl(h, baseUrl, basePath)
       IN  IF h = <<>> \/ h[1] \in {"https://", "http://"} THEN TRUE
           ELSE IF h[1] = "/" THEN r = baseUrl \o beforeHash(h)
           ELSE IF canParse(h) THEN r = baseUrl \o basePath \o <<"/">> \o beforeHash(h)
           ELSE r = Null
  /\ (mode = "recursive" /\ startUrl = DocsA) =>
       resolveUrl(<<"b", "#", "x">>, baseUrl, basePath) = DocsB

\* what a scrape call works on, the fields and the locals
crawlState ==
  <<maxPages, concurrency, visited, queue, pages, pc, startUrl, probe, probed, mode,
    baseUrl, basePath, inflight, fetched, seeded, linked, anyOk, lastFetch, result>>

\* crawlState of a newly constructed instance once scrape(u) reached its first await
freshState(u) ==
  <<maxPages, concurrency, {}, <<>>, <<>>,
    IF validUrl(u) THEN "probe" ELSE "rejected", u,
    IF validUrl(u) THEN 1 ELSE 0,
    IF validUrl(u) THEN <<u \o <<"/", "sitemap.xml">> >> ELSE <<>>,
    "none", <<>>, <<>>, <<>>, <<>>, <<>>, {}, FALSE, "none", <<>> >>

\* C12: sequential reuse is safe. Every scrape call starts from the state a new
\* instance starts from (empty visited, queue and pages), so that what it then
\* does depends on its start URL and the responses alone; all through a call
\* visited holds the URLs this call fetched and pages holds pages this call
\* fetched, whatever the calls before it did; and the result of an earlier call
\* stays as it was returned.
C12_SequentialReuseIsFresh ==
  /\ [][calls' # calls =>
          /\ crawlState' = freshState(startUrl')
          /\ \A k \in 1..Len(returned) : pagesId' # returned[k].pagesId
      ]_vars
  /\ [](/\ visited = Range(fetched)
        /\ pageUrls(pages) \subseteq Range(fetched) \ Range(inflight)
        /\ Len(pages) <= Len(fetched) - Len(inflight))
  /\ [](\A k \in 1..Len(returned) :
          /\ returned[k].atReturn.pages = arrayOf(returned[k].pagesId)
          /\ returned[k].atReturn.pageCount = Len(arrayOf(returned[k].pagesId)))

\* the second call returned; it fetched again a URL the first call had collected,
\* and the first result holds a page the second does not
C12_Witness ==
  /\ calls = 2
  /\ pc = "done"
  /\ Len(returned) = 2
  /\ returned[1].call = 1
  /\ returned[2].call = 2
  /\ DocsB \in pageUrls(returned[1].atReturn.pages) \cap pageUrls(returned[2].atReturn.pages)
  /\ DocsB \in Range(fetched)
  /\ DocsA \in pageUrls(arrayOf(returned[1].pagesId)) \ pageUrls(pages)

\* C15: in the create command, for --max-pages M >= 1 and n >= 1 URLs, the page
\* budget of each URL's scrape is at most M.
C15_BudgetAtMostOption ==
  (cli # <<>> /\ cli.maxPages >= 1 /\ cli.urls >= 1 /\ pc \in {"probe", "crawl"}) =>
    maxPages <= cli.maxPages

\* the elements of the page that are not boilerplate, with their place in it
keptIds(doc) == {i \in 1..Len(doc) : doc[i].kind \notin unwanted}

\* whether the selector has a first region in the page, boilerplate aside, whose
\* trimmed text is longer than 100 characters
qualifies(doc, selector) ==
  IF selector = "body"
  THEN length(trim(bodyText(remove(load(doc))))) > 100
  ELSE \E i \in keptIds(doc) :
         /\ doc[i].kind = selector
         /\ \A j \in keptIds(doc) : doc[j].kind = selector => i <= j
         /\ doc[i].len > 100

\* C20: extraction removes the boilerplate first, then takes the first selector
\* of main, article, [role=main], .content, .documentation, .docs-content,
\* #content, body whose first region has a trimmed text of more than 100
\* characters, and the whole document when there is none; a page of a nav, a
\* main of more than 100 characters and a footer gives the text of main alone.
C20_ExtractionPicksFirstLongRegion ==
  content # <<>> =>
    LET c == content[1]
        order == contentSelectors
    IN  /\ \A n \in 1..Len(c.pieces) :
              /\ c.pieces[n].kind \notin unwanted
              /\ html[c.pieces[n].id].kind \notin unwanted
        /\ \A k \in 1..Len(order) :
              c.by = order[k] <=>
                (qualifies(html, order[k]) /\ \A h \in 1..(k - 1) : ~qualifies(html, order[h]))
        /\ c.by = "document" <=> \A k \in 1..Len(order) : ~qualifies(html, order[k])
        /\ c.by \notin {"body", "document"} =>
              /\ \A n \in 1..Len(c.pieces) : c.pieces[n].kind = c.by
              /\ length(trim(c.pieces)) > 100
        /\ c.by \in {"body", "document"} =>
              {c.pieces[n].id : n \in 1..Len(c.pieces)} \subseteq keptIds(html)
        /\ (/\ Len(html) = 3
            /\ html[1].kind = "nav"
            /\ html[2].kind = "main" /\ html[2].len > 100
            /\ html[3].kind = "footer") =>
              /\ c.by = "main"
              /\ c.pieces # <<>>
              /\ \A n \in 1..Len(c.pieces) : c.pieces[n].id = 2 /\ c.pieces[n].kind = "main"

\* the page of a nav, a main of 101 characters with a nav of its own, and a
\* footer was extracted
C20_Witness ==
  /\ content # <<>>
  /\ html = <<NavElem, [kind |-> "main", ws |-> 1, len |-> 101, nav |-> 1], FooterElem>>
  /\ content[1].by = "main"

\* the URLs whose fetch call c issued, c being one of the two calls in flight
fetchedBy(c) == IF call = c THEN Range(fetched) ELSE Range(other.fetched)

\* C18: nothing stops a scrape call from starting while another is in flight,
\* and the reset of the second call takes the array of pages away from the
\* first: from then on the pages the first call had collected are in the array
\* it left behind, which no result holds, and every result, of either call,
\* holds the array of the second call, with the pages both calls push to it.
C18_OverlapSharesSecondArray ==
  /\ []((pc \in {"probe", "crawl"} /\ other = <<>>) =>
          ENABLED (\E u \in OverlapUrls : ScrapeWhileBusy(u)))
  /\ [][other' # other /\ other = <<>> =>
          /\ visited' = {} /\ queue' = <<>> /\ pages' = <<>>
          /\ retired' = Append(retired, pages)
          /\ other'.pc \in {"probe", "crawl"}
      ]_vars
  /\ [](other # <<>> =>
          /\ calls = 2
          /\ pagesId = 3
          /\ Len(retired) = 2
          /\ pageUrls(retired[2]) \subseteq fetchedBy(1)
          /\ \A k \in 1..Len(returned) :
                /\ returned[k].pagesId = 3
                /\ isPrefix(returned[k].atReturn.pages, pages))

\* the first call returned after the second call began: its result lacks a page
\* it had collected before, and holds a page that was fetched for the second
\* call alone
C18_Witness ==
  /\ other # <<>>
  /\ \E k \in 1..Len(returned) :
       LET r == returned[k].atReturn
       IN  /\ returned[k].call = 1
           /\ \E n \in 1..Len(retired[2]) : retired[2][n].url \notin pageUrls(r.pages)
           /\ \E n \in 1..Len(r.pages) :
                r.pages[n].url \in fetchedBy(2) \ fetchedBy(1)

\* the links of page p that shouldFollow accepts as things are now
followable(p) ==
  {n \in 1..Len(p.content) :
     /\ p.content[n] # <<>>
     /\ shouldFollow(resolveUrl(p.content[n], baseUrl, basePath), baseUrl, basePath)}

\* C21: link discovery stops at the budget. A step of a scrape that leaves
\* maxPages pages or more, the step that collects the maxPages-th page
\* included, writes nothing to the queue and discovers no link; the pages
\* collected by the members of a batch that settle after the budget was reached
\* are among these.
C21_NoDiscoveryAtBudget ==
  /\ [][Len(pages') >= maxPages => queue' = queue /\ linked' = linked]_vars
  /\ [][(pc = "crawl" /\ Len(queue') > Len(queue)) => Len(pages') < maxPages]_vars

\* a crawl returned with more pages than its budget: the page that reached the
\* budget and every page collected after it link to a URL that would have been
\* followed, and the queue was left as it was
C21_Witness ==
  /\ pc = "done"
  /\ Len(pages) > maxPages
  /\ \A k \in maxPages..Len(pages) : followable(pages[k]) # {}
  /\ Len(queue) = 1


====
